---- MODULE Spec2Model ----
(***************************************************************************)
(* Model of music_assistant/controllers/music/providers/filesystem.py:     *)
(* the filesystem music provider (library sync driver, entity builders,    *)
(* playlist parser).                                                       *)
(*                                                                         *)
(* Python strings are sequences of one-character strings, so that the      *)
(* string operations of the code (split, replace, strip, lower, "in",      *)
(* startswith, endswith) are computed and not assumed.                     *)
(***************************************************************************)
EXTENDS Naturals, Sequences, FiniteSets, TLC

VARIABLES
    files,      \* the library tree: file path -> modification token, 0 = no such file
    dirs,       \* tracked directories: path -> content version, 0 = no such directory
    plfile,     \* the text of the playlist file /m/p.m3u
    cache,      \* mass.cache: key -> [value, checksum]
    catalog,    \* mass.music database: set of [kind, item_id, url]
    sync,       \* sync_library's frame: [pc, checksums, todo, last_save] and, as
                \* history, the map loaded at the start and the files walked
    now,        \* time()
    log,        \* what the running (or last) sync_library did, in order
    changes,    \* number of filesystem changes made so far
    call,       \* the last provider call: [op, path, ...]
    ret,        \* what the last provider call returned
    hist        \* per track path, the checksum and Track of the last _parse_track,
                \* and the number of changes the tree had seen by then

vars == <<files, dirs, plfile, cache, catalog, sync, now, log, changes, call, ret, hist>>

\* Python's None; Some(v) is a value that is present
None == <<>>
Some(v) == <<v>>
TheValue(o) == o[1]

----------------------------------------------------------------------------
(* Bounds of the model *)

\* filesystem changes (a file written or deleted, a directory written or removed)
\* in one run
MaxFsChanges == 1

----------------------------------------------------------------------------
(* Python str operations *)

Sep == "/"

StartsWith(s, p) == Len(s) >= Len(p) /\ SubSeq(s, 1, Len(p)) = p

EndsWith(s, p) == Len(s) >= Len(p) /\ SubSeq(s, Len(s) - Len(p) + 1, Len(s)) = p

\* str.find, 1-based; 0 when sub does not occur
Find(s, sub) ==
    LET First(hits) == IF hits = {} THEN 0 ELSE CHOOSE i \in hits : \A j \in hits : i <= j
    IN First({i \in 1..(Len(s) + 1) :
                i + Len(sub) - 1 <= Len(s) /\ SubSeq(s, i, i + Len(sub) - 1) = sub})

\* sub in s
Contains(s, sub) == Find(s, sub) # 0

RECURSIVE Replace(_, _, _)
\* s.replace(old, new), old not empty
Replace(s, old, new) ==
    LET At(i) ==
            IF i = 0 THEN s
            ELSE SubSeq(s, 1, i - 1) \o new
                    \o Replace(SubSeq(s, i + Len(old), Len(s)), old, new)
    IN At(Find(s, old))

RECURSIVE Split(_, _)
\* s.split(sep): a sequence of strings
Split(s, sep) ==
    LET At(i) ==
            IF i = 0 THEN <<s>>
            ELSE <<SubSeq(s, 1, i - 1)>> \o Split(SubSeq(s, i + Len(sep), Len(s)), sep)
    IN At(Find(s, sep))

Last(seq) == seq[Len(seq)]

Whitespace == {" ", "\n", "\t", "\r"}

RECURSIVE LStrip(_)
LStrip(s) == IF s # <<>> /\ Head(s) \in Whitespace THEN LStrip(Tail(s)) ELSE s

RECURSIVE RStrip(_)
RStrip(s) ==
    IF s # <<>> /\ Last(s) \in Whitespace THEN RStrip(SubSeq(s, 1, Len(s) - 1)) ELSE s

\* s.strip()
Strip(s) == RStrip(LStrip(s))

LowerChar(c) ==
    CASE c = "A" -> "a" [] c = "B" -> "b" [] c = "H" -> "h" [] c = "S" -> "s"
      [] c = "V" -> "v" [] c = "Z" -> "z" [] OTHER -> c

\* s.lower()
Lower(s) == [i \in 1..Len(s) |-> LowerChar(s[i])]

\* os.path.join(a, b)
PathJoin(a, b) ==
    IF StartsWith(b, <<Sep>>) THEN b
    ELSE IF a = <<>> \/ EndsWith(a, <<Sep>>) THEN a \o b
    ELSE a \o <<Sep>> \o b

RECURSIVE DropTrailingSeps(_)
DropTrailingSeps(s) ==
    IF s # <<>> /\ Last(s) = Sep THEN DropTrailingSeps(SubSeq(s, 1, Len(s) - 1)) ELSE s

RECURSIVE LastSepIndex(_)
LastSepIndex(s) ==
    IF s = <<>> THEN 0
    ELSE IF Last(s) = Sep THEN Len(s)
    ELSE LastSepIndex(SubSeq(s, 1, Len(s) - 1))

\* os.path.dirname(p)
Dirname(p) ==
    LET Head2(head) ==
            IF \A k \in 1..Len(head) : head[k] = Sep THEN head ELSE DropTrailingSeps(head)
    IN Head2(SubSeq(p, 1, LastSepIndex(p)))

----------------------------------------------------------------------------
(* The library tree of the model *)

\* self.config.path
ROOT == <<"/", "m">>

T1 == <<"/", "m", "/", "A", "r", "/", "H", "i", "t", "/", "a", ".", "m", "p", "3">>
T2 == <<"/", "m", "/", "A", "r", "/", "H", "i", "t", "/", "b", "_", "2", ".", "m", "p", "3">>
L1 == <<"/", "m", "/", "s", ".", "m", "p", "3">>
L2 == <<"/", "m", "/", "S", ".", "m", "p", "3">>
P1 == <<"/", "m", "/", "p", ".", "m", "3", "u">>
N1 == <<"/", "m", "/", "n", ".", "t", "x", "t">>

DAr    == <<"/", "m", "/", "A", "r">>
DArHit == <<"/", "m", "/", "A", "r", "/", "H", "i", "t">>
DBo    == <<"/", "m", "/", "B", "o">>
DBoHit == <<"/", "m", "/", "B", "o", "/", "H", "i", "t">>

AllFiles == {T1, T2, L1, L2, P1, N1}
AllDirs == {DAr, DArHit, DBo, DBoHit}

sAr  == <<"A", "r">>
sBo  == <<"B", "o">>
sHit == <<"H", "i", "t">>
sZed == <<"Z", "e", "d">>
sBoAr == <<"B", "o", ",", " ", "A", "r">>

NoTags == [title |-> <<>>, artist |-> <<>>, album |-> <<>>, albumartist |-> <<>>, image |-> FALSE]

\* TinyTag.get(track_path): the tags a file carries are a function of the file
\* and of its modification token (a rewritten file may carry other tags).
FileTags(path, token) ==
    LET odd == token % 2 = 1
    IN CASE path = T1 ->
              IF odd
              THEN [NoTags EXCEPT !.artist = sAr, !.album = sZed, !.albumartist = sBo]
              ELSE [NoTags EXCEPT !.title = <<"h", "i", "t">>, !.artist = sBoAr, !.image = TRUE]
         [] path = T2 ->
              IF odd
              THEN [NoTags EXCEPT !.title = <<"B">>]
              ELSE [NoTags EXCEPT !.title = <<"B">>, !.artist = sAr, !.image = TRUE]
         [] path = L1 ->
              IF odd
              THEN [NoTags EXCEPT !.title = sHit, !.artist = sBoAr, !.album = sHit,
                                  !.albumartist = sBo]
              ELSE [NoTags EXCEPT !.title = <<"x">>, !.artist = sBo]
         [] path = L2 ->
              IF odd
              THEN [NoTags EXCEPT !.title = <<"y">>, !.artist = sAr]
              ELSE [NoTags EXCEPT !.title = <<"y">>, !.artist = sAr, !.album = sHit]
         [] OTHER -> NoTags

IsSepPrefix(d, p) == StartsWith(p, d \o <<Sep>>)

RECURSIVE Ancestors(_)
\* the directories above a path
Ancestors(p) ==
    LET Above(d) == IF d = p \/ d = <<>> THEN {} ELSE {d} \cup Ancestors(d)
    IN Above(Dirname(p))

Nodes == AllFiles \cup AllDirs

\* Constant tables: TLC evaluates a constant set once, so what the string
\* operations give for the paths of the tree is computed a single time.
AncestorTable == UNION {{<<d, x>> : d \in Ancestors(x)} : x \in Nodes}
ParentTable == {<<Dirname(x), Last(Split(x, <<Sep>>)), x>> : x \in Nodes}

\* x lies below directory d
Under(d, x) == <<d, x>> \in AncestorTable

IsFile(path) == path \in DOMAIN files /\ files[path] > 0

Live == {f \in DOMAIN files : files[f] > 0} \cup {e \in DOMAIN dirs : dirs[e] > 0}

\* a directory exists when it is the root, a tracked directory with a version,
\* or an ancestor of a file or directory that exists
IsDir(path) ==
    LET Is(d) ==
            \/ d = ROOT
            \/ d \in DOMAIN dirs /\ dirs[d] > 0
            \/ \E x \in Live : <<d, x>> \in AncestorTable
    IN Is(IF path # <<Sep>> THEN DropTrailingSeps(path) ELSE path)

DirVersion(d) == IF d \in DOMAIN dirs /\ dirs[d] > 0 THEN dirs[d] ELSE 1

sFolderJpg == <<"f", "o", "l", "d", "e", "r", ".", "j", "p", "g">>
sArtistNfo == <<"a", "r", "t", "i", "s", "t", ".", "n", "f", "o">>
sAlbumNfo  == <<"a", "l", "b", "u", "m", ".", "n", "f", "o">>

\* os.listdir(d): the entries a directory holds. Version 1 holds only the library's
\* own files; from version 2 on there is a folder.jpg; from version 3 on a sidecar.
ListDir(d) ==
    LET own == {x[2] : x \in {y \in ParentTable : y[1] = d /\ y[3] \in Live}}
        v == DirVersion(d)
    IN own
        \cup (IF v >= 2 THEN {sFolderJpg} ELSE {})
        \cup (IF v >= 3 THEN {sArtistNfo, sAlbumNfo} ELSE {})

\* the sidecar of version v, as xmltodict.parse returns it: only the
\* biography / review field is set
NfoInfo(d) == [text |-> <<"v", ToString(DirVersion(d))>>]

----------------------------------------------------------------------------
(* Provider helpers *)

\* the "if self.config.path not in p: p = os.path.join(self.config.path, p)" idiom
FullPath(p) == IF ~Contains(p, ROOT) THEN PathJoin(ROOT, p) ELSE p

\* FileSystemProvider.exists
Exists(file_path) ==
    LET At(p) == IsFile(p) \/ IsDir(p)
    IN At(IF file_path \in Nodes THEN file_path ELSE FullPath(file_path))

\* FileSystemProvider._get_relative_path
GetRelativePath(filename) ==
    LET NoTail(b) == IF EndsWith(b, <<Sep>>) THEN SubSeq(b, 1, Len(b) - 1) ELSE b
        NoHead(a) == NoTail(IF StartsWith(a, <<Sep>>) THEN Tail(a) ELSE a)
    IN NoHead(Replace(filename, ROOT, <<>>))

Punctuation == {".", ",", "_", "'", "-"}

\* music_assistant.helpers.util.create_clean_string
CreateCleanString(s) == SelectSeq(Lower(Strip(s)), LAMBDA c : c \notin Punctuation)

\* FileSystemProvider._get_item_id
GetItemId(filename) == CreateCleanString(GetRelativePath(filename))

\* os.path.getmtime / entry.stat().st_mtime: a directory's mtime is its version
Mtime(path) == IF IsFile(path) THEN files[path] ELSE DirVersion(path)

\* FileSystemProvider._get_checksum and str(entry.stat().st_mtime)
GetChecksum(filename) == Some(ToString(Mtime(filename)))

\* mass.cache.get(key, checksum)
CacheGet(c, key, checksum) ==
    IF key \notin DOMAIN c THEN None
    ELSE IF checksum # None /\ c[key].checksum # checksum THEN None
    ELSE Some(c[key].value)

\* mass.cache.set(key, value, checksum)
CacheSet(c, key, value, checksum) ==
    [k \in DOMAIN c \cup {key} |-> IF k = key THEN [value |-> value, checksum |-> checksum]
                                    ELSE c[k]]

\* MediaItem.to_dict / from_dict
ToDict(item) == [dict |-> item]
FromDict(d) == d.dict

----------------------------------------------------------------------------
(* split_items, FALLBACK_ARTIST, ARTIST_SPLITTERS *)

FALLBACK_ARTIST ==
    <<"V", "a", "r", "i", "o", "u", "s", " ", "A", "r", "t", "i", "s", "t", "s">>

ARTIST_SPLITTERS ==
    << <<";">>, <<",">>, <<"F", "e", "a", "t", "u", "r", "i", "n", "g">>,
       <<" ", "F", "e", "a", "t", ".", " ">>, <<" ", "F", "e", "a", "t", " ">>,
       <<"f", "e", "a", "t", ".">>, <<" ", "&", " ">> >>

DEFAULT_SPLITTERS == << <<"/">>, <<";">>, <<",">> >>

\* a split on the last splitter of the list that occurs
SplitOnLastFound(org_str, splitters) ==
    LET Stripped(parts) == [k \in 1..Len(parts) |-> Strip(parts[k])]
        Lowest(found) ==
            IF found = {} THEN <<org_str>>
            ELSE Stripped(Split(org_str, splitters[CHOOSE i \in found : \A j \in found : i >= j]))
    IN Lowest({i \in 1..Len(splitters) : Contains(org_str, splitters[i])})

\* split_items(org_str, splitters): the first splitter that occurs splits
SplitItems(org_str, splitters) ==
    LET Stripped(parts) == [k \in 1..Len(parts) |-> Strip(parts[k])]
        First(found) ==
            IF found = {} THEN <<org_str>>
            ELSE Stripped(Split(org_str, splitters[CHOOSE i \in found : \A j \in found : i <= j]))
    IN First({i \in 1..Len(splitters) : Contains(org_str, splitters[i])})

\* lines 355-359: "track_artists_str = tags.artist or FALLBACK_ARTIST" and its split
TrackArtistItems(artist) ==
    SplitItems(IF artist # <<>> THEN artist ELSE FALLBACK_ARTIST, ARTIST_SPLITTERS)

----------------------------------------------------------------------------
(* Path and tag computations *)

\* TinyTag.is_supported(filename): decided by the file extension
SUPPORTED_FILE_EXTENSIONS ==
    { <<".", "m", "p", "3">>, <<".", "f", "l", "a", "c">>, <<".", "o", "g", "g">>,
      <<".", "m", "4", "a">> }

IsSupported(path) == \E e \in SUPPORTED_FILE_EXTENSIONS : EndsWith(Lower(path), e)

\* "prefer title from tag, fallback to filename"
TrackTitle(tags, track_path_base) ==
    IF tags.title # <<>> THEN tags.title
    ELSE Replace(Replace(track_path_base, <<".">> \o Last(Split(track_path_base, <<".">>)),
                         <<>>),
                 <<"_">>, <<" ">>)

\* a provider that never sees the three-level structure
NoHierarchy(track_path_base) == FALSE

\* "work out if we have an artist/album/track.ext structure"
IsArtistAlbumTrack(track_path_base) == Len(Split(track_path_base, <<Sep>>)) = 3

\* music_assistant.helpers.util.parse_title_and_version
ParseTitleAndVersion(title) ==
    LET At(i) ==
            IF i # 0 /\ EndsWith(title, <<")">>)
            THEN [name |-> Strip(SubSeq(title, 1, i - 1)),
                  version |-> SubSeq(title, i + 2, Len(title) - 1)]
            ELSE [name |-> title, version |-> <<>>]
    IN At(Find(title, <<" ", "(">>))

sM3u == <<".", "m", "3", "u">>

\* what the path computations of the builders give for one path argument
PathFacts(p) ==
    LET Rec(full, base) ==
            [path |-> p, full |-> full, base |-> base, item_id |-> GetItemId(base),
             name |-> Last(Split(full, <<Sep>>)), dirname |-> Dirname(full),
             supported |-> IsSupported(full), m3u |-> EndsWith(full, sM3u),
             aat |-> IsArtistAlbumTrack(base)]
        At(full) == Rec(full, GetRelativePath(full))
    IN At(FullPath(p))

\* mtimes a file of the model can have
Tokens == 1..(MaxFsChanges + 1)

\* what the tag computations of _parse_track give for one file and token
TagFacts(path, token) ==
    LET Rec(tags, base) ==
            [path |-> path, token |-> token, tags |-> tags,
             nv |-> ParseTitleAndVersion(TrackTitle(tags, base)),
             items |-> TrackArtistItems(tags.artist),
             album_path |-> IF tags.albumartist # <<>>
                            THEN tags.albumartist \o <<"/">> \o tags.album ELSE tags.album]
    IN Rec(FileTags(path, token), GetRelativePath(FullPath(path)))

Range(f) == {f[i] : i \in DOMAIN f}

TagTable == {TagFacts(x[1], x[2]) : x \in AllFiles \X Tokens}

sRelBo    == <<"B", "o">>
sRelBoHit == <<"B", "o", "/", "H", "i", "t">>

KnownPaths ==
    Nodes \cup {sRelBo, sRelBoHit}
          \cup {Dirname(x) : x \in Nodes}
          \cup UNION {Range(r.items) \cup {r.tags.albumartist, r.album_path} : r \in TagTable}

PathTable == {PathFacts(p) : p \in KnownPaths}

\* PathFacts(p), looked up when p is a path of the tables
Facts(p) ==
    LET Lookup(table) ==
            IF \E r \in table : r.path = p THEN CHOOSE r \in table : r.path = p
            ELSE PathFacts(p)
    IN Lookup(PathTable)

\* TagFacts(path, token), looked up when in the table
Tagged(path, token) ==
    LET Lookup(table) ==
            IF \E r \in table : r.path = path /\ r.token = token
            THEN CHOOSE r \in table : r.path = path /\ r.token = token
            ELSE TagFacts(path, token)
    IN Lookup(TagTable)

----------------------------------------------------------------------------
(* Entity builders: each returns [raised, value, cache, hit, extracted] *)

sThumb  == <<"t", "h", "u", "m", "b">>
sFanart == <<"f", "a", "n", "a", "r", "t">>

\* music_assistant.models.enums.ImageType, in definition order
ImageTypes == <<sThumb, sFanart>>

RECURSIVE SetToSeq(_)
SetToSeq(S) ==
    LET From(x) == <<x>> \o SetToSeq(S \ {x})
    IN IF S = {} THEN <<>> ELSE From(CHOOSE y \in S : TRUE)

\* the images one directory entry contributes ("for img_type in ImageType")
ImagesOfEntry(dir, filename) ==
    LET One(filepath, t) ==
            IF Contains(filepath, t) THEN <<[type |-> t, path |-> filepath]>>
            ELSE IF filename = sFolderJpg THEN <<[type |-> sThumb, path |-> filepath]>>
            ELSE <<>>
        All(filepath, types) ==
            LET F[i \in 0..Len(types)] ==
                    IF i = 0 THEN <<>> ELSE F[i - 1] \o One(filepath, types[i])
            IN F[Len(types)]
    IN IF Last(Split(filename, <<".">>)) \notin {<<"j", "p", "g">>, <<"p", "n", "g">>}
       THEN <<>>
       ELSE All(PathJoin(dir, filename), ImageTypes)

\* "find local images"
FindLocalImages(dir) ==
    LET Of(entries) ==
            LET F[i \in 0..Len(entries)] ==
                    IF i = 0 THEN <<>> ELSE F[i - 1] \o ImagesOfEntry(dir, entries[i])
            IN F[Len(entries)]
    IN Of(SetToSeq(ListDir(dir)))

Result(raised, value, c, hit, extracted) ==
    [raised |-> raised, value |-> value, cache |-> c, hit |-> hit, extracted |-> extracted]

\* FileSystemProvider._parse_artist(artist_path, skip_cache)
ParseArtist(c, artist_path0, skip_cache) ==
    LET Record(pf, in_library, description, images) ==
            [item_id |-> pf.item_id, name |-> pf.name, in_library |-> in_library,
             description |-> description, images |-> images, url |-> pf.base]
        Store(cache_key, artist) ==
            Result("", Some(artist), CacheSet(c, cache_key, ToDict(artist), None), FALSE, FALSE)
        Build(pf, cached) ==
            IF cached # None THEN Result("", Some(FromDict(TheValue(cached))), c, TRUE, FALSE)
            ELSE IF ~Exists(pf.full)
            THEN Result("", Some(Record(pf, FALSE, <<>>, <<>>)), c, FALSE, FALSE)
            ELSE IF ~IsDir(pf.full) THEN Result("NotADirectoryError", None, c, FALSE, FALSE)
            ELSE Store(<<"artist", pf.item_id>>,
                       Record(pf, TRUE,
                              IF sArtistNfo \in ListDir(pf.full) THEN NfoInfo(pf.full).text
                              ELSE <<>>,
                              FindLocalImages(pf.full)))
        At(pf) == Build(pf, IF skip_cache THEN None
                            ELSE CacheGet(c, <<"artist", pf.item_id>>, None))
    IN At(Facts(artist_path0))

\* FileSystemProvider._parse_album(album_path, artist, skip_cache)
ParseAlbum(c, album_path0, artist, skip_cache) ==
    LET Record(pf, nv, in_library, description, images) ==
            [item_id |-> pf.item_id, name |-> nv.name, version |-> nv.version,
             artist |-> artist, in_library |-> in_library, description |-> description,
             images |-> images, album_type |-> "unknown", url |-> pf.base]
        Store(cache_key, album) ==
            Result("", Some(album), CacheSet(c, cache_key, ToDict(album), None), FALSE, FALSE)
        Build(pf, cached) ==
            IF cached # None THEN Result("", Some(FromDict(TheValue(cached))), c, TRUE, FALSE)
            ELSE IF ~Exists(pf.full)
            THEN Result("", Some(Record(pf, [name |-> pf.name, version |-> <<>>], FALSE,
                                        <<>>, <<>>)),
                        c, FALSE, FALSE)
            ELSE IF ~IsDir(pf.full) THEN Result("NotADirectoryError", None, c, FALSE, FALSE)
            ELSE Store(<<"album", pf.item_id>>,
                       Record(pf, ParseTitleAndVersion(pf.name), TRUE,
                              IF sAlbumNfo \in ListDir(pf.full) THEN NfoInfo(pf.full).text
                              ELSE <<>>,
                              FindLocalImages(pf.full)))
        At(pf) == Build(pf, IF skip_cache THEN None
                            ELSE CacheGet(c, <<"album", pf.item_id>>, None))
    IN At(Facts(album_path0))

\* Artist == str: an Artist object never equals a name
ArtistEqualsName(artist, name) == FALSE

\* "try to guess the album type"; track_artists is track.artists at that line
GuessAlbumType(name, album, track_artists) ==
    IF Lower(name) = Lower(album.name) THEN "single"
    ELSE IF ~\E i \in 1..Len(track_artists) :
                ArtistEqualsName(album.artist, track_artists[i].name)
         THEN "compilation"
    ELSE "album"

\* the album of a track: directory structure first, then the album tags;
\* pf and tf are the path's and the tags' facts
ResolveAlbum(c, pf, tf) ==
    LET AlbumOf(album_artist, album_path, skip_cache) ==
            IF album_artist.raised # "" THEN album_artist
            ELSE ParseAlbum(album_artist.cache, album_path, album_artist.value, skip_cache)
    IN IF pf.aat
       THEN AlbumOf(ParseArtist(c, Facts(pf.dirname).dirname, TRUE), pf.dirname, TRUE)
       ELSE IF tf.tags.album # <<>>
       THEN IF tf.tags.albumartist # <<>>
            THEN AlbumOf(ParseArtist(c, tf.tags.albumartist, FALSE), tf.album_path, FALSE)
            ELSE ParseAlbum(c, tf.album_path, None, FALSE)
       ELSE Result("", None, c, FALSE, FALSE)

\* "track.artists = [await self._parse_artist(item) for item in split_items(...)]"
ParseTrackArtists(c, items) ==
    LET Add(prev, r) ==
            IF r.raised # "" THEN [prev EXCEPT !.raised = r.raised]
            ELSE [raised |-> "", artists |-> Append(prev.artists, TheValue(r.value)),
                  cache |-> r.cache]
        Step(prev, item) ==
            IF prev.raised # "" THEN prev ELSE Add(prev, ParseArtist(prev.cache, item, FALSE))
        F[i \in 0..Len(items)] ==
            IF i = 0 THEN [raised |-> "", artists |-> <<>>, cache |-> c]
            ELSE Step(F[i - 1], items[i])
    IN F[Len(items)]

\* lines 344-351: "track.album.album_type" is set while track.artists is still
\* the empty list of the constructor (the artists are filled at line 356)
TrackAlbumTyped(album, name) ==
    IF album = None THEN None
    ELSE Some([TheValue(album) EXCEPT
                  !.album_type = GuessAlbumType(name, TheValue(album), <<>>)])

\* lines 361-369: the embedded image also becomes the image of an album without one
TrackAlbumPictured(album, images) ==
    IF album # None /\ images # <<>> /\ TheValue(album).images = <<>>
    THEN Some([TheValue(album) EXCEPT !.images = images]) ELSE album

\* lines 317-324 and 344-413: the Track once album and artists are known
TrackRecord(pf, checksum, tf, album, artists, images) ==
    [item_id |-> pf.item_id, name |-> tf.nv.name, version |-> tf.nv.version,
     in_library |-> TRUE, album |-> TrackAlbumPictured(TrackAlbumTyped(album, tf.nv.name), images),
     artists |-> artists, images |-> images, checksum |-> checksum,
     url |-> pf.base, position |-> None]

\* lines 414-415
TrackStored(c, cache_key, checksum, track) ==
    Result("", Some(track), CacheSet(c, cache_key, ToDict(track), checksum), FALSE, TRUE)

\* lines 353-415
TrackWithArtists(pf, checksum, tf, alb, arts) ==
    IF arts.raised # "" THEN Result(arts.raised, None, arts.cache, FALSE, TRUE)
    ELSE TrackStored(arts.cache, <<"tracks", pf.item_id>>, checksum,
                     TrackRecord(pf, checksum, tf, alb.value, arts.artists,
                                 IF tf.tags.image THEN <<[type |-> sThumb, path |-> pf.full]>>
                                 ELSE <<>>))

\* lines 326-359
TrackWithAlbum(pf, checksum, tf, alb) ==
    IF alb.raised # "" THEN Result(alb.raised, None, alb.cache, FALSE, TRUE)
    ELSE TrackWithArtists(pf, checksum, tf, alb, ParseTrackArtists(alb.cache, tf.items))

\* lines 305-342
TrackWithTags(c, pf, checksum, tf) == TrackWithAlbum(pf, checksum, tf, ResolveAlbum(c, pf, tf))

\* lines 292-303
TrackFromCache(c, pf, checksum, cached, fault) ==
    IF cached # None THEN Result("", Some(FromDict(TheValue(cached))), c, TRUE, FALSE)
    ELSE IF ~pf.supported THEN Result("", None, c, FALSE, FALSE)
    ELSE IF fault THEN Result("TinyTagException", None, c, FALSE, TRUE)
    ELSE TrackWithTags(c, pf, checksum, Tagged(pf.full, files[pf.full]))

\* lines 290-294
TrackChecked(c, pf, checksum, fault) ==
    TrackFromCache(c, pf, checksum, CacheGet(c, <<"tracks", pf.item_id>>, checksum), fault)

\* lines 282-291
TrackAt(c, pf, checksum0, fault) ==
    IF ~Exists(pf.full) THEN Result("MediaNotFoundError", None, c, FALSE, FALSE)
    ELSE TrackChecked(c, pf,
                      IF checksum0 # None /\ checksum0 # Some("") THEN checksum0
                      ELSE GetChecksum(pf.full),
                      fault)

\* FileSystemProvider._parse_track(track_path, checksum); fault says whether
\* TinyTag.get raises on this file
ParseTrack(c, track_path0, checksum0, fault) == TrackAt(c, Facts(track_path0), checksum0, fault)

\* FileSystemProvider._parse_playlist(playlist_path, checksum)
ParsePlaylist(playlist_path0, checksum0) ==
    LET Record(pf, checksum) ==
            [item_id |-> pf.item_id,
             name |-> Replace(Last(Split(pf.base, <<Sep>>)), sM3u, <<>>),
             is_editable |-> TRUE, in_library |-> TRUE, url |-> pf.base,
             owner |-> "Filesystem", checksum |-> checksum]
        At(pf) ==
            IF ~pf.m3u THEN [raised |-> "", value |-> None]
            ELSE IF ~Exists(pf.full) THEN [raised |-> "MediaNotFoundError", value |-> None]
            ELSE [raised |-> "",
                  value |-> Some(Record(pf, IF checksum0 # None /\ checksum0 # Some("")
                                            THEN checksum0 ELSE GetChecksum(pf.full)))]
    IN At(Facts(playlist_path0))

----------------------------------------------------------------------------
(* Initial state *)

\* "if (time() - last_save) > 60"
SAVE_INTERVAL == 60

\* time() when the provider starts: later than SAVE_INTERVAL after the epoch
StartTime == SAVE_INTERVAL + 40

IdleSync == [pc |-> "idle", checksums |-> <<>>, todo |-> <<>>, last_save |-> 0,
             loaded |-> <<>>, walked |-> <<>>, faults |-> 0, runs |-> 0,
             stamps |-> <<>>, after |-> [op |-> "none"]]

NoCall == [op |-> "none"]

TreeOK(f, d) ==
    /\ f \in [AllFiles -> 0..1]
    /\ d \in [AllDirs -> 0..1]
    \* directories that hold files of the tree exist
    /\ \A x \in AllDirs : (\E g \in AllFiles : f[g] > 0 /\ Under(x, g)) => d[x] > 0
    /\ \A x, y \in AllDirs : (d[y] > 0 /\ Under(x, y)) => d[x] > 0

InitTree ==
    /\ files \in {f \in [AllFiles -> 0..1] :
                    f[T1] = 1 /\ f[T2] = 1 /\ f[L1] = 1 /\ f[P1] = 1 /\ f[N1] = 1}
    /\ dirs \in {d \in [AllDirs -> 0..1] : TreeOK(files, d)}

InitRest ==
    /\ plfile = <<>>
    /\ cache = <<>>
    /\ catalog = {}
    /\ sync = IdleSync
    /\ now = StartTime
    /\ log = <<>>
    /\ changes = 0
    /\ call = NoCall
    /\ ret = None
    /\ hist = [p \in AllFiles |-> None]

Init == InitTree /\ InitRest

----------------------------------------------------------------------------
(* The environment: the filesystem changes under the provider *)

NewToken == changes + 2

FsGuard == changes < MaxFsChanges /\ sync.pc = "idle"

\* after a change of the tree the last step is no provider call
FsFrame ==
    /\ call' = NoCall
    /\ ret' = None
    /\ UNCHANGED <<plfile, cache, catalog, sync, now, log, hist>>

\* an existing file is rewritten, or a missing one is created
WriteFile(f) ==
    /\ FsGuard
    /\ \A d \in AllDirs : Under(d, f) => dirs[d] > 0
    /\ files' = [files EXCEPT ![f] = NewToken]
    /\ changes' = changes + 1
    /\ UNCHANGED dirs
    /\ FsFrame

DeleteFile(f) ==
    /\ FsGuard
    /\ files[f] > 0
    /\ files' = [files EXCEPT ![f] = 0]
    /\ changes' = changes + 1
    /\ UNCHANGED dirs
    /\ FsFrame

\* a directory is created, or its content (images, sidecar) changes
WriteDir(d) ==
    /\ FsGuard
    /\ \A x \in AllDirs : Under(x, d) => dirs[x] > 0
    /\ dirs' = [dirs EXCEPT ![d] = dirs[d] + 1]
    /\ changes' = changes + 1
    /\ UNCHANGED files
    /\ FsFrame

\* an empty directory is removed
RemoveDir(d) ==
    /\ FsGuard
    /\ dirs[d] > 0
    /\ ~\E g \in AllFiles : files[g] > 0 /\ Under(d, g)
    /\ ~\E x \in AllDirs : dirs[x] > 0 /\ Under(d, x)
    /\ dirs' = [dirs EXCEPT ![d] = 0]
    /\ changes' = changes + 1
    /\ UNCHANGED files
    /\ FsFrame

----------------------------------------------------------------------------
(* Direct calls of the entity builders *)

ArtistArgs == {DBo, sRelBo}
AlbumArgs == {DArHit, DBoHit}
TrackArgs == {T1, L1, L2}

BuildFrame == UNCHANGED <<files, dirs, plfile, catalog, sync, now, log, changes>>

CallParseArtist(path, skip_cache) ==
    LET Returned(r, full) ==
            /\ cache' = r.cache
            /\ ret' = r.value
            /\ call' = [op |-> "parse_artist", path |-> full, skip_cache |-> skip_cache,
                        hit |-> r.hit, raised |-> r.raised]
    IN /\ sync.pc = "idle"
       /\ Returned(ParseArtist(cache, path, skip_cache), Facts(path).full)
       /\ UNCHANGED hist
       /\ BuildFrame

CallParseAlbum(path, skip_cache) ==
    LET Returned(r, full) ==
            /\ cache' = r.cache
            /\ ret' = r.value
            /\ call' = [op |-> "parse_album", path |-> full, skip_cache |-> skip_cache,
                        hit |-> r.hit, raised |-> r.raised]
    IN /\ sync.pc = "idle"
       /\ Returned(ParseAlbum(cache, path, None, skip_cache), Facts(path).full)
       /\ UNCHANGED hist
       /\ BuildFrame

\* _parse_track(path) and _parse_track(path, checksum) with the file's mtime
CallParseTrack(path, with_checksum) ==
    LET Returned(r, checksum) ==
            /\ cache' = r.cache
            /\ ret' = r.value
            /\ call' = [op |-> "parse_track", path |-> path, checksum |-> checksum,
                        hit |-> r.hit, extracted |-> r.extracted, raised |-> r.raised,
                        prev |-> hist[path]]
            /\ hist' = IF r.raised = "" /\ r.value # None
                       THEN [hist EXCEPT ![path] = Some([checksum |-> checksum,
                                                         track |-> TheValue(r.value),
                                                         changes |-> changes])]
                       ELSE hist
        With(checksum) ==
            Returned(ParseTrack(cache, path, IF with_checksum THEN checksum ELSE None, FALSE),
                     checksum)
    IN /\ sync.pc = "idle"
       /\ With(IF Exists(path) THEN GetChecksum(path) ELSE None)
       /\ BuildFrame

BuilderCall ==
    \/ \E p \in ArtistArgs, skip \in BOOLEAN : CallParseArtist(p, skip)
    \/ \E p \in AlbumArgs, skip \in BOOLEAN : CallParseAlbum(p, skip)
    \/ \E p \in TrackArgs, w \in BOOLEAN : CallParseTrack(p, w)

BuildChange ==
    \/ \E f \in {T1, L1, L2} : WriteFile(f)
    \/ \E d \in {DArHit, DBo, DBoHit} : WriteDir(d)
    \/ \E d \in {DBo, DBoHit} : RemoveDir(d)

NextBuild == BuildChange \/ BuilderCall

SpecBuild == Init /\ [][NextBuild]_vars

----------------------------------------------------------------------------
(* sync_library *)

\* failures of single files (a raising tag reader, a raising database)
MaxFaults == 1

\* runs of sync_library
MaxRuns == 2

\* the time one iteration of the walk may take, skipped files included
Delays == {0, 40}

ChecksumsKey == <<"checksums">>

\* the order in which os.scandir lists the entries of a directory
ScandirOrders == {<<DAr, DArHit, DBo, DBoHit, T1, T2, L1, L2, P1, N1>>,
                  <<N1, P1, L2, L1, T2, T1, DBoHit, DBo, DArHit, DAr>>}

\* os.scandir(path)
Scandir(path, order) ==
    SelectSeq(order, LAMBDA x : x \in Live /\ \E y \in ParentTable : y[1] = path /\ y[3] = x)

RECURSIVE ScanTree(_, _)
\* scantree(path)
ScanTree(path, order) ==
    LET Walk(entries) ==
            LET F[i \in 0..Len(entries)] ==
                    IF i = 0 THEN <<>>
                    ELSE F[i - 1] \o (IF entries[i] \in DOMAIN dirs
                                      THEN ScanTree(entries[i], order) ELSE <<entries[i]>>)
            IN F[Len(entries)]
    IN Walk(Scandir(path, order))

\* mass.music.<kind>.add_db_item(item): an upsert keyed by kind and item id
AddDbItem(cat, kind, item) ==
    {x \in cat : ~(x.kind = kind /\ x.item_id = item.item_id)}
        \cup {[kind |-> kind, item_id |-> item.item_id, url |-> item.url]}

\* "checksums.get(entry.path)"
MapGet(m, k) == IF k \in DOMAIN m THEN Some(m[k]) ELSE None

\* a handler that catches the provider's own error only
CaughtMediaNotFoundOnly(raised) == raised = "MediaNotFoundError"

\* "except Exception": every exception a builder or the database raises is one
Caught(raised) == TRUE

\* a comparison that never finds a file unchanged
NeverUnchanged(checksums, path, checksum) == FALSE

\* "checksum == checksums.get(entry.path)"
Unchanged(checksums, path, checksum) == Some(checksum) = MapGet(checksums, path)

\* an assignment that replaces the map by the one entry
MapPutAlone(m, k, v) == [x \in {k} |-> v]

\* "checksums[entry.path] = checksum"
MapPut(m, k, v) == [x \in DOMAIN m \cup {k} |-> IF x = k THEN v ELSE m[x]]

\* lines 111-118: the map is loaded and the walk starts
SyncStart(order) ==
    LET Loaded(got) == IF got = None THEN <<>> ELSE TheValue(got)
        Start(checksums) ==
            sync' = [pc |-> "scanning", checksums |-> checksums,
                     todo |-> ScanTree(ROOT, order), last_save |-> 0, loaded |-> checksums,
                     walked |-> <<>>, faults |-> sync.faults, runs |-> sync.runs + 1,
                     stamps |-> <<>>, after |-> call]
    IN /\ sync.pc = "idle"
       /\ sync.runs < MaxRuns
       /\ Start(Loaded(CacheGet(cache, ChecksumsKey, None)))
       \* the model counts time from the start of the run
       /\ now' = StartTime
       /\ log' = <<>>
       /\ call' = NoCall
       /\ ret' = None
       /\ UNCHANGED <<files, dirs, plfile, cache, catalog, changes, hist>>

\* an iteration that parses the file and writes nothing to the catalog
ParseOnly(entry, checksum, fault) ==
    [cache |-> cache, catalog |-> catalog, log |-> << <<"parse_track", entry>> >>,
     raised |-> ""]

\* lines 125-142, the try block of one iteration: [cache, catalog, log, raised]
ProcessEntry(entry, checksum, fault) ==
    LET Out(c, cat, events) == [cache |-> c, catalog |-> cat, log |-> events, raised |-> ""]
        Fail(c, events, e) ==
            [cache |-> c, catalog |-> catalog, log |-> Append(events, <<"error", entry>>),
             raised |-> e]
        Upsert(kind, item) == <<"upsert", entry, kind, item.item_id>>
        \* lines 133-136
        AddArtist(c, cat, events, artist) ==
            IF artist = None THEN Out(c, cat, events)
            ELSE Out(c, AddDbItem(cat, "artist", TheValue(artist)),
                     Append(events, Upsert("artist", TheValue(artist))))
        \* lines 130-132
        AddAlbum(c, cat, events, album) ==
            IF album = None THEN Out(c, cat, events)
            ELSE AddArtist(c, AddDbItem(cat, "album", TheValue(album)),
                           Append(events, Upsert("album", TheValue(album))),
                           TheValue(album).artist)
        \* lines 127-129
        AddTrack(c, events, track) ==
            IF fault = "db" THEN Fail(c, events, "DatabaseError")
            ELSE AddAlbum(c, AddDbItem(catalog, "track", track),
                          Append(events, Upsert("track", track)), track.album)
        \* lines 137-139
        AddPlaylist(c, events, pl) ==
            IF pl.raised # "" THEN Fail(c, events, pl.raised)
            ELSE IF pl.value = None THEN Out(c, catalog, events)
            ELSE IF fault = "db" THEN Fail(c, events, "DatabaseError")
            ELSE Out(c, AddDbItem(catalog, "playlist", TheValue(pl.value)),
                     Append(events, Upsert("playlist", TheValue(pl.value))))
        \* line 126
        Parsed(r) ==
            IF r.raised # "" THEN Fail(r.cache, << <<"parse_track", entry>> >>, r.raised)
            ELSE IF r.value # None
            THEN AddTrack(r.cache, << <<"parse_track", entry>> >>, TheValue(r.value))
            ELSE AddPlaylist(r.cache,
                             << <<"parse_track", entry>>, <<"parse_playlist", entry>> >>,
                             ParsePlaylist(entry, Some(checksum)))
    IN Parsed(ParseTrack(cache, entry, Some(checksum), fault = "tags"))

\* lines 118-148: one iteration of the walk; fault is what fails on this file,
\* dt the time the iteration takes
SyncEntry(fault, dt) ==
    LET \* lines 144-148
        Record(entry, done, checksums, save) ==
            /\ now' = now + dt
            /\ catalog' = done.catalog
            /\ cache' = IF save THEN CacheSet(done.cache, ChecksumsKey, checksums, None)
                        ELSE done.cache
            /\ log' = log \o done.log \o << <<"record", entry>> >>
                          \o (IF save THEN << <<"flush">> >> ELSE <<>>)
            /\ sync' = [sync EXCEPT !.todo = Tail(@), !.walked = Append(@, entry),
                                    !.checksums = checksums,
                                    !.stamps = MapPut(@, entry, now + dt),
                                    !.last_save = IF save THEN now + dt ELSE @,
                                    !.faults = IF done.raised # "" THEN @ + 1 ELSE @]
            /\ call' = NoCall
        \* lines 125-142
        Tried(entry, checksum, done) ==
            IF done.raised # "" /\ ~Caught(done.raised)
            THEN \* the exception leaves sync_library
                 /\ sync' = [sync EXCEPT !.pc = "idle", !.faults = @ + 1]
                 /\ log' = log \o done.log
                 /\ cache' = done.cache
                 /\ call' = [op |-> "sync_library", raised |-> done.raised]
                 /\ UNCHANGED <<catalog, now>>
            ELSE Record(entry, done, MapPut(sync.checksums, entry, checksum),
                        (now + dt) - sync.last_save > SAVE_INTERVAL)
        \* lines 121-123
        Iterate(entry, checksum) ==
            IF Unchanged(sync.checksums, entry, checksum)
            THEN /\ sync' = [sync EXCEPT !.todo = Tail(@), !.walked = Append(@, entry)]
                 /\ log' = Append(log, <<"skip", entry>>)
                 /\ call' = NoCall
                 /\ now' = now + dt
                 /\ UNCHANGED <<cache, catalog>>
            ELSE Tried(entry, checksum, ProcessEntry(entry, checksum, fault))
        Entry(entry) == Iterate(entry, ToString(Mtime(entry)))
    IN /\ sync.pc = "scanning"
       /\ sync.todo # <<>>
       /\ fault # "none" => sync.faults < MaxFaults
       /\ Entry(Head(sync.todo))
       /\ ret' = None
       /\ UNCHANGED <<files, dirs, plfile, changes, hist>>

\* line 150: the walk is over, the map is written back
SyncFinish ==
    /\ sync.pc = "scanning"
    /\ sync.todo = <<>>
    /\ cache' = CacheSet(cache, ChecksumsKey, sync.checksums, None)
    /\ log' = Append(log, <<"flush">>)
    /\ sync' = [sync EXCEPT !.pc = "idle"]
    /\ call' = [op |-> "sync_library", raised |-> ""]
    /\ ret' = None
    /\ UNCHANGED <<files, dirs, plfile, catalog, now, changes, hist>>

\* the task running sync_library is cancelled between two files
SyncInterrupt ==
    /\ sync.pc = "scanning"
    /\ sync.todo # <<>>
    /\ sync.walked # <<>>
    /\ sync' = [sync EXCEPT !.pc = "idle"]
    /\ call' = [op |-> "sync_library", raised |-> "CancelledError"]
    /\ ret' = None
    /\ UNCHANGED <<files, dirs, plfile, cache, catalog, now, log, changes, hist>>

SyncChange ==
    \/ \E f \in {L1, L2, P1} : WriteFile(f)
    \/ \E f \in {L1, T2} : DeleteFile(f)

NextSync ==
    \/ \E order \in ScandirOrders : SyncStart(order)
    \/ \E fault \in {"none", "tags", "db"}, dt \in Delays : SyncEntry(fault, dt)
    \/ SyncFinish
    \/ SyncInterrupt
    \/ SyncChange

InitSync ==
    /\ files = [f \in AllFiles |-> IF f = L2 THEN 0 ELSE 1]
    /\ dirs = [d \in AllDirs |-> IF d \in {DAr, DArHit} THEN 1 ELSE 0]
    /\ InitRest

SpecSync == InitSync /\ [][NextSync]_vars

----------------------------------------------------------------------------
(* Playlists: get_track, get_playlist_tracks, add_playlist_tracks *)

\* writes to the playlist file, by the provider or by an editor; the file's
\* modification time counts them
MaxWrites == 2

NL == "\n"

sScheme == <<":", "/", "/">>

\* uris of other providers: the first is known to the catalog, the second is not
sUriKnown   == <<"x", ":", "/", "/", "y">>
sUriUnknown == <<"x", ":", "/", "/", "n">>

\* file.readlines() followed by line.strip(): the line breaks end the lines and
\* do not survive the strip
Readlines(text) ==
    LET Lines(parts) ==
            IF Last(parts) = <<>> THEN SubSeq(parts, 1, Len(parts) - 1) ELSE parts
    IN Lines(Split(text, <<NL>>))

\* the characters the %XX escapes of the playlists stand for
Escapes == {<<"2", "3", "#">>, <<"2", "0", " ">>}

RECURSIVE Unquote(_)
\* urllib.parse.unquote
Unquote(s) ==
    IF s = <<>> THEN <<>>
    ELSE IF s[1] = "%" /\ Len(s) >= 3 /\ \E e \in Escapes : e[1] = s[2] /\ e[2] = s[3]
    THEN <<(CHOOSE e \in Escapes : e[1] = s[2] /\ e[2] = s[3])[3]>>
            \o Unquote(SubSeq(s, 4, Len(s)))
    ELSE <<s[1]>> \o Unquote(Tail(s))

\* mass.music.get_provider_mapping(provider_id, provider_item_id, return_key="url")
GetProviderMapping(cat, item_id) ==
    LET Url(found) == IF found = {} THEN None ELSE Some((CHOOSE x \in found : TRUE).url)
    IN Url({x \in cat : x.item_id = item_id})

\* FileSystemProvider.get_filepath
GetFilepath(cat, item_id) ==
    LET Full(file_path) ==
            IF file_path # None THEN Some(FullPath(TheValue(file_path))) ELSE None
    IN Full(GetProviderMapping(cat, item_id))

\* get_track on what get_filepath returned: _parse_track(None) fails on
\* "self.config.path not in track_path"
GetTrackAt(c, itempath) ==
    IF itempath = None THEN Result("TypeError", None, c, FALSE, FALSE)
    ELSE ParseTrack(c, TheValue(itempath), None, FALSE)

\* FileSystemProvider.get_track
GetTrack(c, cat, prov_track_id) == GetTrackAt(c, GetFilepath(cat, prov_track_id))

\* mass.music.get_item_by_uri
GetItemByUri(uri) ==
    IF uri = sUriKnown
    THEN [raised |-> "", value |-> Some([item_id |-> <<"y">>, name |-> <<"y">>,
                                          url |-> uri, position |-> None])]
    ELSE [raised |-> "MusicAssistantError", value |-> None]

\* FileSystemProvider._parse_track_from_uri
ParseTrackFromUri(c, cat, uri) ==
    LET External(r) ==
            IF r.raised = "MusicAssistantError" THEN Result("", None, c, FALSE, FALSE)
            ELSE Result(r.raised, r.value, c, FALSE, FALSE)
        Local(r) ==
            IF r.raised = "MediaNotFoundError" THEN Result("", None, r.cache, FALSE, FALSE)
            ELSE r
    IN IF Contains(uri, sScheme) THEN External(GetItemByUri(uri))
       ELSE Local(GetTrack(c, cat, uri))

\* lines 191-196: one line of the playlist
PlaylistLine(prev, cat, line) ==
    LET Add(r) ==
            IF r.raised # "" THEN [prev EXCEPT !.raised = r.raised, !.cache = r.cache]
            ELSE IF r.value = None THEN [prev EXCEPT !.cache = r.cache]
            ELSE [raised |-> "",
                  result |-> Append(prev.result,
                                    [TheValue(r.value) EXCEPT !.position = Some(prev.index)]),
                  index |-> prev.index + 1,
                  cache |-> r.cache]
    IN IF prev.raised # "" THEN prev
       ELSE IF line = <<>> \/ StartsWith(line, <<"#">>) THEN prev
       ELSE Add(ParseTrackFromUri(prev.cache, cat, line))

\* the loop of get_playlist_tracks over the lines of the file
PlaylistTracks(c, cat, lines) ==
    LET F[i \in 0..Len(lines)] ==
            IF i = 0 THEN [raised |-> "", result |-> <<>>, index |-> 0, cache |-> c]
            ELSE PlaylistLine(F[i - 1], cat, Unquote(Strip(lines[i])))
    IN F[Len(lines)]

\* get_playlist_tracks on what get_filepath returned; exists(None) fails on
\* "self.config.path not in file_path"
PlaylistTracksAt(c, cat, itempath, text) ==
    IF itempath = None
    THEN [raised |-> "TypeError", result |-> <<>>, index |-> 0, cache |-> c]
    ELSE IF ~Exists(TheValue(itempath))
    THEN [raised |-> "MediaNotFoundError", result |-> <<>>, index |-> 0, cache |-> c]
    ELSE PlaylistTracks(c, cat, Readlines(text))

\* FileSystemProvider.get_playlist_tracks, on the content text of the file
GetPlaylistTracks(c, cat, prov_playlist_id, text) ==
    PlaylistTracksAt(c, cat, GetFilepath(cat, prov_playlist_id), text)

PlaylistId == Facts(P1).item_id

\* what "await _file.writeline(uri)" does on the file object aiofiles returns:
\* the attribute is missing, or the uri is written, or the uri and a line break
WritelineOutcomes == {"AttributeError", "write", "writeline"}

Writeline(text, uri, outcome) ==
    IF outcome = "writeline" THEN text \o uri \o <<NL>> ELSE text \o uri

RECURSIVE WriteAll(_, _, _)
WriteAll(text, uris, outcome) ==
    IF uris = <<>> THEN text
    ELSE WriteAll(Writeline(text, Head(uris), outcome), Tail(uris), outcome)

\* the ids add_playlist_tracks is called with
TrackIds == {Facts(L1).item_id, Facts(T1).item_id}

UriLists ==
    {<<>>} \cup {<<a>> : a \in TrackIds}
           \cup {u \in {<<a, b>> : a, b \in TrackIds} : u[1] # u[2]}

PlaylistFrame == UNCHANGED <<dirs, catalog, sync, now, log, changes, hist>>

\* FileSystemProvider.get_playlist_tracks(prov_playlist_id)
CallGetPlaylistTracks ==
    LET Returned(r, itempath) ==
            /\ cache' = r.cache
            /\ ret' = IF r.raised = "" THEN Some(r.result) ELSE None
            /\ call' = [op |-> "get_playlist_tracks", raised |-> r.raised,
                        mapped |-> itempath # None,
                        after |-> IF call.op = "add_playlist_tracks" THEN call ELSE NoCall]
    IN /\ sync.pc = "idle"
       /\ Returned(GetPlaylistTracks(cache, catalog, PlaylistId, plfile),
                   GetFilepath(catalog, PlaylistId))
       /\ UNCHANGED <<files, plfile>>
       /\ PlaylistFrame

\* FileSystemProvider.add_playlist_tracks(prov_playlist_id, prov_track_ids)
CallAddPlaylistTracks(prov_track_ids, outcome) ==
    LET Raised(itempath) ==
            IF itempath = None THEN "TypeError"
            ELSE IF ~Exists(TheValue(itempath)) THEN "MediaNotFoundError"
            ELSE IF prov_track_ids # <<>> /\ outcome = "AttributeError" THEN "AttributeError"
            ELSE ""
        Written(raised, before) ==
            /\ plfile' = IF raised = "" /\ prov_track_ids # <<>>
                         THEN WriteAll(plfile, prov_track_ids, outcome) ELSE plfile
            /\ files' = IF raised = "" /\ prov_track_ids # <<>>
                        THEN [files EXCEPT ![P1] = @ + 1] ELSE files
            /\ call' = [op |-> "add_playlist_tracks", raised |-> raised,
                        uris |-> prov_track_ids, text |-> plfile,
                        before |-> [raised |-> before.raised, result |-> before.result]]
    IN /\ sync.pc = "idle"
       /\ files[P1] <= MaxWrites
       /\ Written(Raised(GetFilepath(catalog, PlaylistId)),
                  GetPlaylistTracks(cache, catalog, PlaylistId, plfile))
       /\ ret' = None
       /\ UNCHANGED cache
       /\ PlaylistFrame

\* what an editor outside the provider appends to the playlist file
Fragments ==
    {Facts(L1).item_id \o <<NL>>, Facts(L1).item_id, Facts(L1).base \o <<NL>>,
     <<"#", "c", NL>>, <<NL>>, <<"z", NL>>, <<"%", "2", "3", NL>>,
     sUriKnown \o <<NL>>, sUriUnknown \o <<NL>>}

EditPlaylist(fragment) ==
    /\ sync.pc = "idle"
    /\ files[P1] <= MaxWrites
    /\ plfile' = plfile \o fragment
    /\ files' = [files EXCEPT ![P1] = @ + 1]
    /\ call' = NoCall
    /\ ret' = None
    /\ UNCHANGED cache
    /\ PlaylistFrame

\* the library is synchronised once, when the provider starts
NextPlaylist ==
    \/ /\ sync.runs = 0
       /\ plfile = <<>>
       /\ changes = 0
       /\ SyncStart(CHOOSE order \in ScandirOrders : order[1] = DAr)
    \/ SyncEntry("none", 0)
    \/ SyncFinish
    \/ \E fragment \in Fragments : EditPlaylist(fragment)
    \/ CallGetPlaylistTracks
    \/ \E uris \in UriLists, outcome \in WritelineOutcomes : CallAddPlaylistTracks(uris, outcome)
    \/ DeleteFile(L1)

SpecPlaylist == InitSync /\ [][NextPlaylist]_vars

----------------------------------------------------------------------------
(* Properties of the entity builders, checked under SpecBuild *)

IsTrackCall == call.op = "parse_track" /\ call.raised = "" /\ ret # None

IsDirCall == call.op \in {"parse_artist", "parse_album"} /\ call.raised = ""

\* C4: a second _parse_track of an unchanged file (same checksum as at the
\* previous _parse_track of that path) returns the Track the previous call
\* returned, from the (id, checksum) cache, without reading the tags again,
\* whatever builder calls were made in between.
C4_SecondParseFromCache ==
    (IsTrackCall /\ call.prev # None /\ TheValue(call.prev).checksum = call.checksum)
        => /\ call.hit
           /\ ~call.extracted
           /\ TheValue(ret) = TheValue(call.prev).track

\* what an Artist or Album record takes from the directory on disk
DiskFields(e) ==
    [in_library |-> e.in_library, description |-> e.description, images |-> e.images]

\* the record a builder derives from the disk as it is now
FreshDerived ==
    IF call.op = "parse_artist" THEN TheValue(ParseArtist(cache, call.path, TRUE).value)
    ELSE TheValue(ParseAlbum(cache, call.path, None, TRUE).value)

\* C5: a builder returns a cached entity only while it matches the live file or
\* directory: a record served from the cache equals what deriving it from the
\* disk gives now (artist, album), and carries the file's live checksum (track).
C5_CacheHitIsFresh ==
    /\ (IsDirCall /\ call.hit) => DiskFields(TheValue(ret)) = DiskFields(FreshDerived)
    /\ (IsTrackCall /\ call.hit) => TheValue(ret).checksum = call.checksum

\* the album type the rule of the claim gives a track
ClaimedAlbumType(t) ==
    LET album == TheValue(t.album)
        names == {t.artists[i].name : i \in 1..Len(t.artists)}
    IN IF Lower(t.name) = Lower(album.name) THEN "single"
       ELSE IF album.artist = None \/ TheValue(album.artist).name \notin names
            THEN "compilation"
       ELSE "album"

\* C6: a track resolved with an album gets SINGLE when its name equals the album
\* name case-insensitively, else COMPILATION when the album artist's name is not
\* among the names of the track's artists, else ALBUM.
C6_AlbumTypeRule ==
    (IsTrackCall /\ call.extracted /\ TheValue(ret).album # None)
        => TheValue(TheValue(ret).album).album_type = ClaimedAlbumType(TheValue(ret))

\* a directory-derived record agrees with the directory as it is now
FromLiveDir(e, fresh) ==
    /\ e.in_library = fresh.in_library
    /\ e.description = fresh.description
    /\ fresh.images # <<>> => e.images = fresh.images

\* C7: hierarchy inference is first match wins. A track whose root-relative path
\* has exactly three segments takes its album and album artist from the parent
\* and grandparent directories, read from the disk and not from the cache, and
\* its album tags are not used; any other track with an album tag gets the
\* album synthesized from the tags; any other track has no album.
C7_HierarchyFirstMatch ==
    (IsTrackCall /\ call.extracted)
        => LET t == TheValue(ret)
               full == FullPath(call.path)
               tags == FileTags(full, files[full])
           IN IF Len(Split(GetRelativePath(full), <<Sep>>)) = 3
              THEN /\ t.album # None
                   /\ TheValue(t.album).url = GetRelativePath(Dirname(full))
                   /\ FromLiveDir(TheValue(t.album),
                        TheValue(ParseAlbum(cache, Dirname(full), None, TRUE).value))
                   /\ TheValue(t.album).artist # None
                   /\ TheValue(TheValue(t.album).artist)
                        = TheValue(ParseArtist(cache, Dirname(Dirname(full)), TRUE).value)
              ELSE IF tags.album # <<>>
              THEN /\ t.album # None
                   /\ TheValue(t.album).url
                        = (IF tags.albumartist # <<>>
                           THEN tags.albumartist \o <<"/">> \o tags.album ELSE tags.album)
              ELSE t.album = None

\* C7 witness: a three-segment track that carries album tags naming another
\* album was parsed after its album directory changed, and got the directory's
\* album
C7_Witness ==
    /\ IsTrackCall /\ call.extracted /\ call.path = T1
    /\ FileTags(T1, files[T1]).album = sZed
    /\ dirs[DArHit] = 2
    /\ TheValue(TheValue(ret).album).name = sHit

\* C10: the Artist and Album builders return in_library = true only for a
\* directory that exists at the time of the call.
C10_VirtualWhenNoDirectory ==
    IsDirCall => (TheValue(ret).in_library => IsDir(call.path))

----------------------------------------------------------------------------
(* Properties of sync_library *)

\* the run of sync_library that the log describes is still walking, or has just
\* completed: the tree is as the walk saw it
InRun == sync.pc = "scanning" \/ (call.op = "sync_library" /\ call.raised = "")

Completed == sync.pc = "idle" /\ call.op = "sync_library" /\ call.raised = ""

LogHas(event) == \E i \in 1..Len(log) : log[i] = event

Token(path) == ToString(Mtime(path))

\* the map the cache holds
Persisted ==
    LET got == CacheGet(cache, ChecksumsKey, None)
    IN IF got = None THEN <<>> ELSE TheValue(got)

\* a builder was invoked or the catalog was written for the file
Handled(path) ==
    \E i \in 1..Len(log) : log[i][1] \in {"parse_track", "parse_playlist", "upsert", "error"}
                            /\ log[i][2] = path

\* C1: a failure while a file is parsed or its entities are persisted never ends
\* the run: the exception is caught, the file's path is recorded in the checksum
\* map with its current token right after the failure, the walk goes on to the
\* next file, and when the run completes the persisted map holds the failing
\* file's current token.
C1_FailureDoesNotAbort ==
    /\ [](/\ InRun =>
                \A i \in 1..Len(log) :
                    log[i][1] = "error" =>
                        /\ i < Len(log)
                        /\ log[i + 1] = <<"record", log[i][2]>>
                        /\ MapGet(sync.checksums, log[i][2]) = Some(Token(log[i][2]))
                        /\ Completed => MapGet(Persisted, log[i][2]) = Some(Token(log[i][2]))
          /\ call.op = "sync_library" => call.raised \in {"", "CancelledError"})
    /\ [][(sync.pc = "scanning" /\ sync.todo # <<>>
              /\ \E i \in (Len(log) + 1)..Len(log') : log'[i][1] = "error")
            => /\ sync'.pc = "scanning"
               /\ sync'.todo = Tail(sync.todo)
               /\ sync'.walked = Append(sync.walked, Head(sync.todo))]_vars

\* a file failed, the walk went on to a later file, and the run completed
C1_Witness ==
    /\ Completed
    /\ \E i, j \in 1..Len(log) :
          /\ i < j
          /\ log[i][1] = "error"
          /\ log[j][1] = "upsert"
          /\ log[j][2] # log[i][2]

\* C2: a walked file whose token equals the one the map loaded at the start of the
\* run holds for its path is skipped, with no builder invoked and no catalog write
\* for it; a walked file whose token is absent from that map or different is
\* dispatched to the track builder. A run that starts right after a completed run,
\* with no change to the tree in between, parses nothing and writes nothing.
C2_UnchangedFilesAreSkipped ==
    InRun =>
        /\ \A j \in 1..Len(sync.walked) :
              LET path == sync.walked[j]
              IN IF MapGet(sync.loaded, path) = Some(Token(path))
                 THEN ~Handled(path) /\ LogHas(<<"skip", path>>)
                 ELSE LogHas(<<"parse_track", path>>) /\ ~LogHas(<<"skip", path>>)
        /\ (sync.after.op = "sync_library" /\ sync.after.raised = "")
              => \A i \in 1..Len(log) : log[i][1] \in {"skip", "flush"}

\* a second run over the unchanged tree has completed
C2_Witness ==
    /\ Completed
    /\ sync.runs = 2
    /\ sync.after.op = "sync_library"
    /\ sync.after.raised = ""
    /\ Len(sync.walked) >= 4

\* C3: when sync_library completes, the map it persisted holds the current token
\* of every file the walk yielded in this run and still has an entry for every
\* path the map loaded at the start of the run had.
C3_CompletionPersistsMap ==
    Completed =>
        /\ \A j \in 1..Len(sync.walked) :
              MapGet(Persisted, sync.walked[j]) = Some(Token(sync.walked[j]))
        /\ DOMAIN sync.loaded \subseteq DOMAIN Persisted
        /\ log # <<>> /\ log[Len(log)] = <<"flush">>

\* a run completed whose loaded map had an entry for a file that is gone
C3_Witness ==
    /\ Completed
    /\ sync.walked # <<>>
    /\ \E p \in DOMAIN sync.loaded : \A j \in 1..Len(sync.walked) : sync.walked[j] # p

----------------------------------------------------------------------------
(* Properties of the playlist operations *)

ItemIds(tracks) == [i \in 1..Len(tracks) |-> tracks[i].item_id]

Consecutive(tracks) == \A i \in 1..Len(tracks) : tracks[i].position = Some(i - 1)

\* the id names a track of the catalog whose file exists
LocallyResolvable(id) ==
    \E x \in catalog : x.kind = "track" /\ x.item_id = id /\ IsFile(FullPath(x.url))

\* C8: after add_playlist_tracks with N locally resolvable track URIs on a playlist
\* file, get_playlist_tracks yields the entries the file gave before followed by
\* exactly the N URIs in the appended order, every appended URI is a line of its
\* own in the file, and the positions are consecutive from 0.
C8_PlaylistRoundTrip ==
    (/\ call.op = "get_playlist_tracks"
     /\ call.mapped
     /\ call.after.op = "add_playlist_tracks"
     /\ call.after.before.raised = ""
     /\ \A i \in 1..Len(call.after.uris) : LocallyResolvable(call.after.uris[i]))
        => /\ call.after.raised = ""
           /\ call.raised = ""
           /\ Readlines(plfile) = Readlines(call.after.text) \o call.after.uris
           /\ ItemIds(TheValue(ret)) = ItemIds(call.after.before.result) \o call.after.uris
           /\ Consecutive(TheValue(ret))

\* the file a line names, by its path below the root or by its id
NamedFiles(line) == {f \in AllFiles : Facts(f).base = line \/ Facts(f).item_id = line}

\* the ids of the lines that resolve, in file order
RECURSIVE ResolvableIds(_)
ResolvableIds(lines) ==
    IF lines = <<>> THEN <<>>
    ELSE LET line == Unquote(Strip(Head(lines)))
             rest == ResolvableIds(Tail(lines))
         IN IF line = <<>> \/ StartsWith(line, <<"#">>) THEN rest
            ELSE IF Contains(line, sScheme)
            THEN IF GetItemByUri(line).raised = "" THEN <<TheValue(GetItemByUri(line).value).item_id>> \o rest
                 ELSE rest
            ELSE IF \E f \in NamedFiles(line) : IsFile(f) /\ Facts(f).supported
            THEN <<Facts(CHOOSE f \in NamedFiles(line) : IsFile(f) /\ Facts(f).supported).item_id>>
                    \o rest
            ELSE rest

\* C9: get_playlist_tracks on an existing playlist does not fail because of a
\* line: blank lines and lines starting with '#' are ignored, a '://' line the
\* catalog cannot resolve and a line naming a missing local track are skipped,
\* and the result is the resolvable lines in file order at positions 0..k-1.
C9_LinesNeverFail ==
    (call.op = "get_playlist_tracks" /\ call.mapped)
        => /\ call.raised = ""
           /\ ItemIds(TheValue(ret)) = ResolvableIds(Readlines(plfile))
           /\ Consecutive(TheValue(ret))

----------------------------------------------------------------------------
(* split_items on artist tags *)

\* the number of pieces an artist tag of the model is made of
MaxPieces == 3

\* names, the splitters of ARTIST_SPLITTERS, and "/"
ArtistPieces ==
    {<<"A">>, <<"B">>, <<",", " ">>, <<"/">>} \cup Range(ARTIST_SPLITTERS)

sABC  == <<"A", ",", " ", "B", " ", "&", " ", "C">>
sACDC == <<"A", "C", "/", "D", "C">>

RECURSIVE Concats(_)
Concats(n) ==
    IF n = 0 THEN {<<>>}
    ELSE LET Longer(shorter) == shorter \cup {x \o p : x \in shorter, p \in ArtistPieces}
         IN Longer(Concats(n - 1))

\* the artist tags of the model; the empty string is the absent tag
ArtistTags == Concats(MaxPieces) \cup {sABC, sACDC}

InitSplit ==
    /\ files = [f \in AllFiles |-> IF f = L2 THEN 0 ELSE 1]
    /\ dirs = [d \in AllDirs |-> IF d \in {DAr, DArHit} THEN 1 ELSE 0]
    /\ plfile = <<>>
    /\ cache = <<>>
    /\ catalog = {}
    /\ sync = IdleSync
    /\ now = StartTime
    /\ log = <<>>
    /\ changes = 0
    /\ call \in {[op |-> "tags", artist |-> a] : a \in ArtistTags}
    /\ ret = None
    /\ hist = [p \in AllFiles |-> None]

\* lines 355-359 on the artist tag that was read
CallSplitItems ==
    /\ call.op = "tags"
    /\ call' = [op |-> "split_items", artist |-> call.artist]
    /\ ret' = Some(TrackArtistItems(call.artist))
    /\ UNCHANGED <<files, dirs, plfile, cache, catalog, sync, now, log, changes, hist>>

NextSplit == CallSplitItems

SpecSplit == InitSplit /\ [][NextSplit]_vars

----------------------------------------------------------------------------
(* Properties of split_items, checked under SpecSplit *)

RECURSIVE Occurrences(_, _)
\* how often sub occurs in s, from left to right and without overlap
Occurrences(s, sub) ==
    IF Len(s) < Len(sub) THEN 0
    ELSE IF SubSeq(s, 1, Len(sub)) = sub
    THEN 1 + Occurrences(SubSeq(s, Len(sub) + 1, Len(s)), sub)
    ELSE Occurrences(Tail(s), sub)

RECURSIVE Squeeze(_)
\* s without its whitespace
Squeeze(s) ==
    IF s = <<>> THEN <<>>
    ELSE IF Head(s) \in Whitespace THEN Squeeze(Tail(s))
    ELSE <<Head(s)>> \o Squeeze(Tail(s))

RECURSIVE Flat(_)
Flat(items) == IF items = <<>> THEN <<>> ELSE Squeeze(Head(items)) \o Flat(Tail(items))

\* the splitters of the list that occur in s, by their place in the list
Occurring(s) == {i \in 1..Len(ARTIST_SPLITTERS) : Occurrences(s, ARTIST_SPLITTERS[i]) > 0}

FirstOccurring(s) == ARTIST_SPLITTERS[CHOOSE i \in Occurring(s) : \A j \in Occurring(s) : i <= j]

SplitOnOne(s, items) ==
    IF Occurring(s) = {} THEN items = <<s>>
    ELSE /\ Len(items) = Occurrences(s, FirstOccurring(s)) + 1
         /\ \A k \in 1..Len(items) : Occurrences(items[k], FirstOccurring(s)) = 0
         /\ Flat(items) = Squeeze(Replace(s, FirstOccurring(s), <<>>))

----------------------------------------------------------------------------
(* Order of catalog writes and checksum recording, checked under SpecSync *)

\* the events that close the work on one file, or write the map
Closing == {"record", "skip", "flush"}

\* the place of the last closing event before the k-th event of the log, or 0
SegmentStart(k) ==
    LET Before(ends) == IF ends = {} THEN 0 ELSE CHOOSE j \in ends : \A i \in ends : i <= j
    IN Before({j \in 1..(k - 1) : log[j][1] \in Closing})

\* the kinds of the catalog writes between two places of the log, in order
RECURSIVE UpsertKinds(_, _)
UpsertKinds(from, to) ==
    IF from > to THEN <<>>
    ELSE (IF log[from][1] = "upsert" THEN <<log[from][3]>> ELSE <<>>)
            \o UpsertKinds(from + 1, to)

UpsertOrders ==
    {<<>>, <<"track">>, <<"track", "album">>, <<"track", "album", "artist">>, <<"playlist">>}

\* the file is a track or a playlist: processing it has a result
HasResult(path) == Facts(path).supported \/ Facts(path).m3u

\* everything between the previous closing event and the record of path at k is
\* about path, and the catalog writes come in the order track, album, artist
OrderedBefore(k, path) ==
    /\ \A j \in (SegmentStart(k) + 1)..(k - 1) : log[j][2] = path
    /\ UpsertKinds(SegmentStart(k) + 1, k - 1) \in UpsertOrders
    /\ \A j \in 1..Len(log) : (j # k /\ log[j][1] \in {"record", "skip"}) => log[j][2] # path
    /\ MapGet(sync.checksums, path) = Some(Token(path))

PersistedBefore(k, path) ==
    \E j \in (SegmentStart(k) + 1)..(k - 1) :
        /\ log[j][1] = "upsert"
        /\ \E x \in catalog : x.kind = log[j][3] /\ x.item_id = log[j][4]

FailedBefore(k, path) ==
    \E j \in (SegmentStart(k) + 1)..(k - 1) : log[j] = <<"error", path>>

\* C12 as stated: the catalog writes of a file come before its token is put into
\* the map and both before anything is done for the next file, so every track or
\* playlist whose token is recorded has been written to the catalog.
C12_RecordedMeansPersisted ==
    InRun =>
        \A k \in 1..Len(log) :
            log[k][1] = "record" =>
                /\ OrderedBefore(k, log[k][2])
                /\ HasResult(log[k][2]) => PersistedBefore(k, log[k][2])

\* C12, amended: the order holds for every file, and every track or playlist
\* whose token is recorded has been written to the catalog unless processing
\* the file raised an exception, which is caught before the token is recorded.
C12_RecordedMeansPersistedOrFailed ==
    InRun =>
        \A k \in 1..Len(log) :
            log[k][1] = "record" =>
                /\ OrderedBefore(k, log[k][2])
                /\ (HasResult(log[k][2]) /\ ~FailedBefore(k, log[k][2]))
                      => PersistedBefore(k, log[k][2])
                /\ FailedBefore(k, log[k][2]) => log[k - 1] = <<"error", log[k][2]>>

\* a track, its album and the album's artist were written, the track's token was
\* recorded, and the walk has gone on to another file
C12_Witness ==
    /\ InRun
    /\ \E k \in 4..(Len(log) - 1) :
          /\ log[k] = <<"record", T1>>
          /\ UpsertKinds(SegmentStart(k) + 1, k - 1) = <<"track", "album", "artist">>
          /\ log[k + 1][1] \in {"flush", "parse_track", "skip"}
          /\ \E j \in (k + 1)..Len(log) : log[j][1] = "parse_track" /\ log[j][2] # T1

----------------------------------------------------------------------------
(* Interruption of sync_library, checked under SpecSync *)

Interrupted == sync.pc = "idle" /\ call.op = "sync_library" /\ call.raised = "CancelledError"

\* the paths whose token in the map of the run is not the one the cache holds
Unsaved == {p \in DOMAIN sync.checksums : MapGet(Persisted, p) # MapGet(sync.checksums, p)}

\* every item of the catalog is still there, as the same kind, after the step
NothingRemoved ==
    \A x \in catalog : \E y \in catalog' : y.kind = x.kind /\ y.item_id = x.item_id

\* C13: when sync_library is interrupted between two files, the checksum updates
\* missing from the persisted map were all recorded within the last
\* SAVE_INTERVAL time units, and no step of the run removes an item from the
\* catalog.
C13_InterruptLosesLastMinute ==
    /\ [](Interrupted =>
             \A p \in Unsaved : /\ p \in DOMAIN sync.stamps
                                /\ now - sync.stamps[p] <= SAVE_INTERVAL)
    /\ [][NothingRemoved]_vars

----------------------------------------------------------------------------
(* The tracks of one album directory *)

AlbumTracks == {T1, T2}

\* the tracks of /m/Ar/Hit are parsed, in any order, while the files and the
\* directory change
NextAlbum ==
    \/ \E p \in AlbumTracks, w \in BOOLEAN : CallParseTrack(p, w)
    \/ \E p \in {DArHit}, skip \in BOOLEAN : CallParseAlbum(p, skip)
    \/ \E f \in AlbumTracks : WriteFile(f)
    \/ WriteDir(DArHit)

SpecAlbum == InitSync /\ [][NextAlbum]_vars

----------------------------------------------------------------------------
(* Albums of the tracks of one album, checked under SpecAlbum *)

\* the fields two Album objects are compared on
AlbumFields(album) ==
    [item_id |-> album.item_id, name |-> album.name, artist |-> album.artist,
     album_type |-> album.album_type, images |-> album.images,
     in_library |-> album.in_library]

\* the Track _parse_track last returned for path, if that was in the present
\* state of the tree
ParsedNow(path) ==
    IF hist[path] # None /\ TheValue(hist[path]).changes = changes
    THEN Some(TheValue(hist[path]).track) ELSE None

SameAlbum(t, u) ==
    /\ t.album # None
    /\ u.album # None
    /\ TheValue(t.album).item_id = TheValue(u.album).item_id

\* C14: two tracks of the same album, parsed in the same state of the tree, carry
\* equal Album objects (id, name, artist, album_type, images, in_library),
\* whichever was parsed first.
C14_SameAlbumEqualObjects ==
    IsTrackCall =>
        \A q \in AllFiles \ {call.path} :
            (ParsedNow(q) # None /\ SameAlbum(TheValue(ret), TheValue(ParsedNow(q))))
                => AlbumFields(TheValue(TheValue(ret).album))
                      = AlbumFields(TheValue(TheValue(ParsedNow(q)).album))

----------------------------------------------------------------------------
(* The title of a track without a title tag, checked under SpecBuild *)

\* the name of the file alone, without its extension, underscores as spaces
FileStem(path) ==
    LET Spaced(stem) == [i \in 1..Len(stem) |-> IF stem[i] = "_" THEN " " ELSE stem[i]]
        Cut(name, dots) ==
            IF dots = {} THEN Spaced(name)
            ELSE Spaced(SubSeq(name, 1, (CHOOSE i \in dots : \A j \in dots : i >= j) - 1))
        Named(name) == Cut(name, {i \in 1..Len(name) : name[i] = "."})
    IN Named(SubSeq(path, LastSepIndex(path) + 1, Len(path)))

\* C15: a track whose file has no title tag gets the name of the file alone as
\* its title (last path segment, extension stripped, underscores replaced by
\* spaces), at every depth below the root, and _parse_track does not raise.
C15_TitleFromFileName ==
    (call.op = "parse_track" /\ call.extracted
        /\ FileTags(call.path, files[call.path]).title = <<>>)
        => /\ call.raised = ""
           /\ ret # None
           /\ TheValue(ret).name = FileStem(call.path)

====
